---- MODULE Spec2Model ----
(***************************************************************************)
(* The REST backend of ie-backend: the auth middleware, the auth handlers  *)
(* (signup, login, logout) and the post handlers (create, list, update,    *)
(* delete), over a user collection and a post collection.                  *)
(*                                                                         *)
(* A request body and the request headers are records that hold only the   *)
(* fields the client sent; a JavaScript object is a record, and "delete    *)
(* o.f" is the record without the field f.  Every action is one handler    *)
(* run to its response, except signup, which is split at the await between *)
(* its existence query and its save so that two signups can interleave.    *)
(***************************************************************************)
EXTENDS Integers, Sequences, FiniteSets, TLC

\* ---------------------------------------------------------------- bounds
MaxInFlight == 2     \* signup requests that may be between their query and their save
MaxPostIds  == 2     \* post ids the store hands out in one run
MaxTime     == 3     \* the last clock value a run reaches

\* expiresIn: '1d', in clock ticks of half a day
ExpiresIn == 2

\* ---------------------------------------------------------------- inputs
Names     == {"a", "b"}          \* values sent as email, username or login "user"
FullNames == {"N"}
Passwords == {"p", "q"}           \* values sent as login password
SignupPasswords == {"p"}          \* values sent as signup password
Salts     == {"s1"}
Titles    == {"t1", "t2"}
Malformed == -1                  \* a postId that is no well-formed ObjectId
Slots     == 1..MaxInFlight

APPLICATION_SECRET == "secret"
OtherKey           == "other"

VARIABLES
    users,        \* the User collection, in insertion order
    posts,        \* the Post collection, in insertion order
    postIds,      \* how many post ids the store has generated
    now,          \* the clock jsonwebtoken reads (whole NumericDate ticks)
    pending,      \* per slot: the signup that passed its existence query and has not saved yet
    clientToken,  \* the token the client holds from a login response ({} when none)
    loggedOut,    \* a logout was served for the token the client holds
    last          \* the last request and its response

vars == <<users, posts, postIds, now, pending, clientToken, loggedOut, last>>

\* ------------------------------------------------------------ JavaScript
Restrict(o, D) == [f \in D |-> o[f]]

\* delete o.f
Delete(o, f) == Restrict(o, DOMAIN o \ {f})

\* !o.f for a field that holds a string: absent (undefined) or ""
Falsy(o, f) == f \notin DOMAIN o \/ o[f] = ""

Range(s) == {s[i] : i \in DOMAIN s}

\* the objects of `full`, and `base` with each of its fields left out in turn
OrMissing(full, base) == full \cup {Delete(base, f) : f \in DOMAIN base}

\* a name resolved in a function's scope: an undeclared name throws a ReferenceError
Eval(scope, name) ==
    IF name \in DOMAIN scope
    THEN [ok |-> TRUE, value |-> scope[name]]
    ELSE [ok |-> FALSE, error |-> [name |-> "ReferenceError", message |-> <<name, " is not defined">>]]

\* ------------------------------------------------------------- responses
\* new ApiError({ message, statusCode })
ApiError(message, statusCode) == [name |-> "ApiError", message |-> message, statusCode |-> statusCode]

\* res.status(status).json({ message, data, success: true })
Json(status, message, data) ==
    [status |-> status, message |-> message, success |-> TRUE, data |-> data, clearCookie |-> FALSE]

\* next(error): the central responder. An ApiError answers with its own status and
\* message, any other error with a generic failure.
ErrorResponse(error) ==
    [status      |-> IF "statusCode" \in DOMAIN error THEN error.statusCode ELSE 500,
     message     |-> IF "statusCode" \in DOMAIN error THEN error.message ELSE <<"Something went wrong">>,
     success     |-> FALSE,
     data        |-> <<>>,
     clearCookie |-> FALSE]

\* --------------------------------------------------------------- bcryptjs
\* bcrypt.hash(password, salt): the salt is kept in the hash
BcryptHash(password, salt) == [salt |-> salt, digest |-> <<salt, password>>]

\* bcrypt.compare(password, hash): hashes again with the salt of the stored hash
BcryptCompare(password, hash) == BcryptHash(password, hash.salt).digest = hash.digest

\* ----------------------------------------------------------- jsonwebtoken
\* jwt.sign(payload, key, { expiresIn: '1d' }) at time t
JwtSign(payload, key, t) == [payload |-> payload @@ [iat |-> t, exp |-> t + ExpiresIn], sig |-> key]

JwtVerifyLate(token, key, t) ==
    IF token.sig # key
    THEN [ok |-> FALSE, error |-> [name |-> "JsonWebTokenError", message |-> <<"invalid signature">>]]
    ELSE IF t > token.payload.exp
    THEN [ok |-> FALSE, error |-> [name |-> "TokenExpiredError", message |-> <<"jwt expired">>]]
    ELSE [ok |-> TRUE, decoded |-> token.payload]

\* jwt.verify(token, key) at time t: throws on a bad signature and once t reaches exp
JwtVerify(token, key, t) ==
    IF token.sig # key
    THEN [ok |-> FALSE, error |-> [name |-> "JsonWebTokenError", message |-> <<"invalid signature">>]]
    ELSE IF t >= token.payload.exp
    THEN [ok |-> FALSE, error |-> [name |-> "TokenExpiredError", message |-> <<"jwt expired">>]]
    ELSE [ok |-> TRUE, decoded |-> token.payload]

\* ----------------------------------------------------------------- stores
Min(S) == CHOOSE x \in S : \A y \in S : x <= y

\* Model.findOne(filter), I the positions of the documents the filter matches: the
\* first of them in store order, {} for null
FindOne(coll, I) == IF I = {} THEN {} ELSE {coll[Min(I)]}

The(S) == CHOOSE x \in S : TRUE

Remove(coll, doc) ==
    LET i == Min({j \in DOMAIN coll : coll[j] = doc})
    IN  SubSeq(coll, 1, i - 1) \o SubSeq(coll, i + 1, Len(coll))

UserSaveNoIndex(us, doc) == [ok |-> TRUE, users |-> Append(us, doc)]

\* newUser.save(): the User collection keeps email and username unique; a save
\* that would repeat either throws a duplicate-key error and stores nothing
UserSave(us, doc) ==
    IF \E u \in Range(us) : u.email = doc.email \/ u.username = doc.username
    THEN [ok |-> FALSE, error |-> [name |-> "MongoServerError", message |-> <<"E11000 duplicate key error">>]]
    ELSE [ok |-> TRUE, users |-> Append(us, doc)]

\* mongoose.isValidObjectId(postId)
IsValidObjectId(id) == id # Malformed

\* -------------------------------------------------------- auth middleware
AccessDenied ==
    [status |-> 401, message |-> <<"Access Denied">>, success |-> FALSE, data |-> <<>>, clearCookie |-> TRUE]

AuthNoUserCheck(headers, t) ==
    IF "authorization" \notin DOMAIN headers
    THEN [next |-> 0, user |-> {}, res |-> {AccessDenied}]
    ELSE LET v == JwtVerify(headers.authorization, APPLICATION_SECRET, t)
         IN  IF ~v.ok
             THEN [next |-> 0, user |-> {}, res |-> {AccessDenied}]
             ELSE [next |-> 1, user |-> {v.decoded[f] : f \in DOMAIN v.decoded \cap {"user"}}, res |-> {}]

\* auth(req, res, next) at time t: how often next() is called, req.user when it is
\* set, and the response when the middleware sends one
Auth(headers, t) ==
    IF "authorization" \notin DOMAIN headers
    THEN [next |-> 0, user |-> {}, res |-> {AccessDenied}]
    ELSE LET v == JwtVerify(headers.authorization, APPLICATION_SECRET, t)
         IN  IF ~v.ok
             THEN [next |-> 0, user |-> {}, res |-> {AccessDenied}]
             ELSE IF "user" \notin DOMAIN v.decoded
             THEN [next |-> 0, user |-> {}, res |-> {AccessDenied}]
             ELSE [next |-> 1, user |-> {v.decoded.user}, res |-> {}]

\* ---------------------------------------------------------- auth handlers
SignupQueryEmailOnly(us, body) ==
    IF Falsy(body, "fullName") \/ Falsy(body, "email") \/ Falsy(body, "password") \/ Falsy(body, "username")
    THEN {ApiError(<<"Required fields are missing">>, 400)}
    ELSE IF FindOne(us, {i \in DOMAIN us : us[i].email = body.email}) # {}
    THEN {ApiError(<<"Account with same email or username already exists">>, 409)}
    ELSE {}

\* signupUser up to its existence query: the error it throws, {} when it goes on
SignupQuery(us, body) ==
    IF Falsy(body, "fullName") \/ Falsy(body, "email") \/ Falsy(body, "password") \/ Falsy(body, "username")
    THEN {ApiError(<<"Required fields are missing">>, 400)}
    ELSE IF FindOne(us, {i \in DOMAIN us : us[i].email = body.email \/ us[i].username = body.username}) # {}
    THEN {ApiError(<<"Account with same email or username already exists">>, 409)}
    ELSE {}

\* the variable signupUser puts in the token payload
SignupPayloadVar == "loggedInUser"

\* signupUser from the hash on: the user store and the response it leaves
SignupCreate(us, body, salt, t) ==
    LET hashedPassword == BcryptHash(body.password, salt)
        doc == [_id |-> Len(us) + 1, fullName |-> body.fullName, email |-> body.email,
                password |-> hashedPassword, username |-> body.username]
        saved == UserSave(us, doc)
    IN  IF ~saved.ok
        THEN [users |-> us, res |-> ErrorResponse(saved.error)]
        ELSE LET newUser == Delete(doc, "password")
                 scope == [fullName |-> body.fullName, email |-> body.email, password |-> body.password,
                           username |-> body.username, newUser |-> newUser, salt |-> salt,
                           hashedPassword |-> hashedPassword]
                 payloadUser == Eval(scope, SignupPayloadVar)
             IN  IF ~payloadUser.ok
                 THEN [users |-> saved.users, res |-> ErrorResponse(payloadUser.error)]
                 ELSE [users |-> saved.users,
                       res |-> Json(201, <<"User signup successful!">>,
                                    [user |-> newUser,
                                     authToken |-> JwtSign([user |-> payloadUser.value], APPLICATION_SECRET, t)])]

LoginUserKeepsPassword(us, body, t) ==
    IF Falsy(body, "user") \/ Falsy(body, "password")
    THEN ErrorResponse(ApiError(<<"Required fields are missing">>, 400))
    ELSE LET found == FindOne(us, {i \in DOMAIN us : us[i].email = body.user \/ us[i].username = body.user})
         IN  IF found = {}
             THEN ErrorResponse(ApiError(<<"User does not exist!">>, 404))
             ELSE IF ~BcryptCompare(body.password, The(found).password)
             THEN ErrorResponse(ApiError(<<"Invalid Password">>, 401))
             ELSE Json(200, <<"User login successful!">>,
                       [user |-> The(found),
                        authToken |-> JwtSign([user |-> The(found)], APPLICATION_SECRET, t)])

LoginUserNoCompare(us, body, t) ==
    IF Falsy(body, "user") \/ Falsy(body, "password")
    THEN ErrorResponse(ApiError(<<"Required fields are missing">>, 400))
    ELSE LET found == FindOne(us, {i \in DOMAIN us : us[i].email = body.user \/ us[i].username = body.user})
         IN  IF found = {}
             THEN ErrorResponse(ApiError(<<"User does not exist!">>, 404))
             ELSE LET loggedInUser == Delete(The(found), "password")
                  IN  Json(200, <<"User login successful!">>,
                           [user |-> loggedInUser,
                            authToken |-> JwtSign([user |-> loggedInUser], APPLICATION_SECRET, t)])

\* loginUser at time t: its response
LoginUser(us, body, t) ==
    IF Falsy(body, "user") \/ Falsy(body, "password")
    THEN ErrorResponse(ApiError(<<"Required fields are missing">>, 400))
    ELSE LET found == FindOne(us, {i \in DOMAIN us : us[i].email = body.user \/ us[i].username = body.user})
         IN  IF found = {}
             THEN ErrorResponse(ApiError(<<"User does not exist!">>, 404))
             ELSE IF ~BcryptCompare(body.password, The(found).password)
             THEN ErrorResponse(ApiError(<<"Invalid Password">>, 401))
             ELSE LET loggedInUser == Delete(The(found), "password")
                  IN  Json(200, <<"User login successful!">>,
                           [user |-> loggedInUser,
                            authToken |-> JwtSign([user |-> loggedInUser], APPLICATION_SECRET, t)])

\* logoutUser: its response
LogoutUser == [Json(200, <<"User logout successful!">>, <<>>) EXCEPT !.clearCookie = TRUE]

\* ---------------------------------------------------------- post handlers
\* createPost for req.user = user: the post store, the id counter and the response
CreatePost(ps, ids, user, body) ==
    IF Falsy(body, "title")
    THEN [posts |-> ps, postIds |-> ids, res |-> ErrorResponse(ApiError(<<"Required fields are missing!">>, 400))]
    ELSE LET newPost == [_id |-> ids + 1, title |-> body.title, createdBy |-> user._id]
         IN  [posts |-> Append(ps, newPost), postIds |-> ids + 1,
              res |-> Json(201, <<"Post created successfully!">>, [post |-> newPost])]

\* populate("createdBy", "fullName username"): the creator's selected fields, and the
\* _id that a Mongoose projection keeps unless it is excluded by name
Populate(us, id) ==
    LET found == FindOne(us, {i \in DOMAIN us : us[i]._id = id})
    IN  IF found = {} THEN <<>> ELSE Restrict(The(found), {"_id", "fullName", "username"})

\* fetchAllPosts: its response
FetchAllPosts(ps, us) ==
    Json(200, <<"Posts fetched successfully!">>,
         [posts |-> [i \in DOMAIN ps |-> [ps[i] EXCEPT !.createdBy = Populate(us, ps[i].createdBy)]]])

PostFindById(ps, postId, user) == FindOne(ps, {i \in DOMAIN ps : ps[i]._id = postId})

\* Post.findOne({ _id: postId, createdBy: user._id })
PostFindOwned(ps, postId, user) == FindOne(ps, {i \in DOMAIN ps : ps[i]._id = postId /\ ps[i].createdBy = user._id})

NoSuchPost(postId) == ApiError(<<"Post with id: ", ToString(postId), " does not exist!">>, 404)

UpdatePostEveryOwned(ps, user, body) ==
    IF Falsy(body, "title") \/ "postId" \notin DOMAIN body \/ ~IsValidObjectId(body.postId)
    THEN [posts |-> ps, res |-> ErrorResponse(ApiError(<<"Required fields are missing">>, 400))]
    ELSE LET found == PostFindOwned(ps, body.postId, user)
         IN  IF found = {}
             THEN [posts |-> ps, res |-> ErrorResponse(NoSuchPost(body.postId))]
             ELSE LET post == [The(found) EXCEPT !.title = body.title]
                  IN  [posts |-> [i \in DOMAIN ps |-> IF ps[i].createdBy = post.createdBy
                                                      THEN [ps[i] EXCEPT !.title = body.title] ELSE ps[i]],
                       res |-> Json(200, <<"Post updated successfully!">>, [post |-> post])]

\* updatePost for req.user = user: the post store and the response
UpdatePost(ps, user, body) ==
    IF Falsy(body, "title") \/ "postId" \notin DOMAIN body \/ ~IsValidObjectId(body.postId)
    THEN [posts |-> ps, res |-> ErrorResponse(ApiError(<<"Required fields are missing">>, 400))]
    ELSE LET found == PostFindOwned(ps, body.postId, user)
         IN  IF found = {}
             THEN [posts |-> ps, res |-> ErrorResponse(NoSuchPost(body.postId))]
             ELSE LET post == [The(found) EXCEPT !.title = body.title]
                  IN  [posts |-> [i \in DOMAIN ps |-> IF ps[i]._id = post._id THEN post ELSE ps[i]],
                       res |-> Json(200, <<"Post updated successfully!">>, [post |-> post])]

\* deletePost for req.user = user: the post store and the response
DeletePost(ps, user, body) ==
    IF "postId" \notin DOMAIN body \/ ~IsValidObjectId(body.postId)
    THEN [posts |-> ps, res |-> ErrorResponse(ApiError(<<"Required fields are missing">>, 400))]
    ELSE LET found == PostFindOwned(ps, body.postId, user)
         IN  IF found = {}
             THEN [posts |-> ps, res |-> ErrorResponse(NoSuchPost(body.postId))]
             ELSE [posts |-> Remove(ps, The(found)),
                   res |-> Json(200, <<"Post deleted successfully!">>, <<>>)]

\* ---------------------------------------------------------------- requests
SignupBodies == OrMissing([fullName : FullNames, email : Names, username : Names, password : SignupPasswords],
                          [fullName |-> "N", email |-> "a", username |-> "a", password |-> "p"])
LoginBodies  == OrMissing([user : Names, password : Passwords], [user |-> "a", password |-> "p"])
CreateBodies == OrMissing([title : Titles \cup {""}], [title |-> "t1"])
PostIdInputs == (1..MaxPostIds) \cup {Malformed}
UpdateBodies == OrMissing([title : Titles, postId : PostIdInputs], [title |-> "t1", postId |-> 1])
DeleteBodies == OrMissing([postId : PostIdInputs], [postId |-> 1])

\* what a client can put in the authorization header: the token it holds, that token
\* signed with another key, and a token signed with the secret that carries no user
Wire == clientToken
        \cup {[tk EXCEPT !.sig = OtherKey] : tk \in clientToken}
        \cup {JwtSign([sub |-> "service"], APPLICATION_SECRET, now)}

Headers == {<<>>} \cup {[authorization |-> tk] : tk \in Wire}

\* the headers of a client that sends the token it holds, or none
PlainHeaders == {<<>>} \cup {[authorization |-> tk] : tk \in clientToken}

\* one request and its response
Exchange(op, headers, body, a, res) ==
    [op |-> op, headers |-> headers, body |-> body, time |-> now,
     next |-> a.next, user |-> a.user, res |-> res,
     before |-> [users |-> users, posts |-> posts, loggedOut |-> loggedOut]]

\* a route without the middleware: the handler is the first in the chain
Public == [next |-> 1, user |-> {}, res |-> {}]

\* the token the client holds after a response: the one the response carries, when
\* it carries one and the client keeps it
Held(res, keep) ==
    IF keep /\ "authToken" \in DOMAIN res.data THEN {res.data.authToken} ELSE clientToken

Init ==
    /\ users = <<>>
    /\ posts = <<>>
    /\ postIds = 0
    /\ now = 0
    /\ pending = [r \in Slots |-> {}]
    /\ clientToken = {}
    /\ loggedOut = FALSE
    /\ last = [op |-> "none", headers |-> <<>>, body |-> <<>>, time |-> 0, next |-> 0, user |-> {},
               res |-> [status |-> 0, message |-> <<>>, success |-> TRUE, data |-> <<>>, clearCookie |-> FALSE],
               before |-> [users |-> <<>>, posts |-> <<>>, loggedOut |-> FALSE]]

\* POST /api/auth/signup, to the await of the existence query
SignupCheck(r, body) ==
    /\ pending[r] = {}
    /\ LET thrown == SignupQuery(users, body)
       IN  IF thrown # {}
           THEN /\ last' = Exchange("signup", <<>>, body, Public, ErrorResponse(The(thrown)))
                /\ UNCHANGED pending
           ELSE /\ pending' = [pending EXCEPT ![r] = {body}]
                /\ UNCHANGED last
    /\ UNCHANGED <<users, posts, postIds, now, clientToken, loggedOut>>

\* POST /api/auth/signup, from the hash to the response
SignupSave(r, salt) ==
    /\ pending[r] # {}
    /\ LET body == The(pending[r])
           out == SignupCreate(users, body, salt, now)
       IN  /\ users' = out.users
           /\ last' = Exchange("signup", <<>>, body, Public, out.res)
           /\ clientToken' = Held(out.res, TRUE)
           /\ loggedOut' = (loggedOut /\ clientToken' = clientToken)
    /\ pending' = [pending EXCEPT ![r] = {}]
    /\ UNCHANGED <<posts, postIds, now>>

\* POST /api/auth/signup when no other request runs between its awaits
Signup(body, salt) ==
    /\ \A r \in Slots : pending[r] = {}
    /\ LET thrown == SignupQuery(users, body)
           out == IF thrown # {}
                  THEN [users |-> users, res |-> ErrorResponse(The(thrown))]
                  ELSE SignupCreate(users, body, salt, now)
       IN  /\ users' = out.users
           /\ last' = Exchange("signup", <<>>, body, Public, out.res)
           /\ clientToken' = Held(out.res, TRUE)
           /\ loggedOut' = (loggedOut /\ clientToken' = clientToken)
    /\ UNCHANGED <<posts, postIds, now, pending>>

\* POST /api/auth/login
Login(body, keep) ==
    /\ LET res == LoginUser(users, body, now)
       IN  /\ last' = Exchange("login", <<>>, body, Public, res)
           /\ clientToken' = Held(res, keep)
           /\ loggedOut' = (loggedOut /\ clientToken' = clientToken)
    /\ UNCHANGED <<users, posts, postIds, now, pending>>

\* POST /api/auth/logout, behind the middleware
Logout(headers) ==
    /\ LET a == Auth(headers, now)
       IN  /\ last' = Exchange("logout", headers, <<>>, a, IF a.next = 0 THEN The(a.res) ELSE LogoutUser)
           /\ loggedOut' = (loggedOut \/ (a.next = 1 /\ headers.authorization \in clientToken))
    /\ UNCHANGED <<users, posts, postIds, now, pending, clientToken>>

\* POST /api/post/create, behind the middleware
Create(headers, body) ==
    /\ LET a == Auth(headers, now)
       IN  IF a.next = 0
           THEN /\ last' = Exchange("create", headers, body, a, The(a.res))
                /\ UNCHANGED <<posts, postIds>>
           ELSE LET out == CreatePost(posts, postIds, The(a.user), body)
                IN  /\ out.postIds <= MaxPostIds
                    /\ posts' = out.posts
                    /\ postIds' = out.postIds
                    /\ last' = Exchange("create", headers, body, a, out.res)
    /\ UNCHANGED <<users, now, pending, clientToken, loggedOut>>

\* GET /api/post/
List ==
    /\ last' = Exchange("list", <<>>, <<>>, Public, FetchAllPosts(posts, users))
    /\ UNCHANGED <<users, posts, postIds, now, pending, clientToken, loggedOut>>

\* PUT /api/post/update, behind the middleware
Update(headers, body) ==
    /\ LET a == Auth(headers, now)
       IN  IF a.next = 0
           THEN /\ last' = Exchange("update", headers, body, a, The(a.res))
                /\ UNCHANGED posts
           ELSE LET out == UpdatePost(posts, The(a.user), body)
                IN  /\ posts' = out.posts
                    /\ last' = Exchange("update", headers, body, a, out.res)
    /\ UNCHANGED <<users, postIds, now, pending, clientToken, loggedOut>>

\* POST /api/post/delete, behind the middleware
DeleteReq(headers, body) ==
    /\ LET a == Auth(headers, now)
       IN  IF a.next = 0
           THEN /\ last' = Exchange("delete", headers, body, a, The(a.res))
                /\ UNCHANGED posts
           ELSE LET out == DeletePost(posts, The(a.user), body)
                IN  /\ posts' = out.posts
                    /\ last' = Exchange("delete", headers, body, a, out.res)
    /\ UNCHANGED <<users, postIds, now, pending, clientToken, loggedOut>>

\* the clock advances
Tick ==
    /\ now < MaxTime
    /\ now' = now + 1
    /\ UNCHANGED <<users, posts, postIds, pending, clientToken, loggedOut, last>>

\* ---------------------------------------------------------- specifications
\* signups that interleave at their await
NextSignup ==
    \/ \E r \in Slots, body \in SignupBodies : SignupCheck(r, body)
    \/ \E r \in Slots, salt \in Salts : SignupSave(r, salt)

SpecSignup == Init /\ [][NextSignup]_vars

\* sessions over time: signups, logins and logouts one at a time, and the clock
NextSession ==
    \/ \E body \in SignupBodies, salt \in Salts : Signup(body, salt)
    \/ \E body \in LoginBodies, keep \in BOOLEAN : Login(body, keep)
    \/ \E headers \in Headers : Logout(headers)
    \/ Tick

SpecSession == Init /\ [][NextSession]_vars

\* every handler, one request at a time, within the lifetime of a token
Next ==
    \/ \E body \in SignupBodies, salt \in Salts : Signup(body, salt)
    \/ \E body \in LoginBodies, keep \in BOOLEAN : Login(body, keep)
    \/ \E headers \in Headers : Logout(headers)
    \/ \E headers \in PlainHeaders, body \in CreateBodies : Create(headers, body)
    \/ List
    \/ \E headers \in PlainHeaders, body \in UpdateBodies : Update(headers, body)
    \/ \E headers \in PlainHeaders, body \in DeleteBodies : DeleteReq(headers, body)

Spec == Init /\ [][Next]_vars

\* ------------------------------------------------------------------ claims
SignupFields == {"fullName", "email", "username", "password"}

Present(body, fields) == \A f \in fields : ~Falsy(body, f)

\* a stored user has the email or the username the body carries
Taken(us, body) ==
    \E u \in Range(us) : \/ "email" \in DOMAIN body /\ u.email = body.email
                         \/ "username" \in DOMAIN body /\ u.username = body.username

SuccessStatus(op) == IF op \in {"signup", "create"} THEN 201 ELSE 200

\* C1: a signup with all four fields whose email and username are both free stores
\* exactly one new user and answers 201 with that user (no password) and a token
\* that embeds that same user.
C1_SignupCreatesUserAndToken ==
    (last.op = "signup" /\ Present(last.body, SignupFields) /\ ~Taken(last.before.users, last.body)) =>
        /\ last.res.status = 201
        /\ Len(users) = Len(last.before.users) + 1
        /\ SubSeq(users, 1, Len(last.before.users)) = last.before.users
        /\ users[Len(users)].email = last.body.email
        /\ users[Len(users)].username = last.body.username
        /\ last.res.data.user = Delete(users[Len(users)], "password")
        /\ last.res.data.authToken.payload.user = Delete(users[Len(users)], "password")

\* C3: no two stored users share an email and no two share a username, also when
\* signups interleave between their existence query and their save.
C3_UniqueEmailAndUsername ==
    \A i, j \in DOMAIN users :
        i # j => users[i].email # users[j].email /\ users[i].username # users[j].username

\* two signups passed their queries with clashing fields; the second save was refused
C3_Witness ==
    /\ last.op = "signup"
    /\ last.res.status = 500
    /\ users = last.before.users
    /\ Taken(users, last.body)

\* C5 as stated: a signup whose email or username is that of a stored user answers
\* 409 and stores no user.
C5_Original ==
    (last.op = "signup" /\ Taken(last.before.users, last.body)) =>
        last.res.status = 409 /\ users = last.before.users

\* C5: a signup that carries all four fields and whose email or username is that of
\* a stored user answers 409 and stores no user; so does a repeat of a signup that
\* stored its user.
C5_DuplicateSignupConflicts ==
    (last.op = "signup" /\ Present(last.body, SignupFields) /\ Taken(last.before.users, last.body)) =>
        last.res.status = 409 /\ users = last.before.users

\* the same signup again: every field is that of a stored user
C5_Witness ==
    /\ last.op = "signup"
    /\ last.res.status = 409
    /\ Present(last.body, SignupFields)
    /\ \E u \in Range(users) : /\ u.fullName = last.body.fullName
                               /\ u.email = last.body.email
                               /\ u.username = last.body.username
                               /\ BcryptCompare(last.body.password, u.password)

\* C10: a signup, login, create, update or delete that does not end in its success
\* status leaves the user store and the post store as they were.
C10_FailuresChangeNothing ==
    (last.op \in {"signup", "login", "create", "update", "delete"} /\ last.res.status # SuccessStatus(last.op)) =>
        users = last.before.users /\ posts = last.before.posts

\* the requests that pass through the middleware
Guarded == {"logout", "create", "update", "delete"}

\* the post the request names, when another user than req.user created it
ForeignPost(x) ==
    {p \in Range(x.before.posts) :
        /\ "postId" \in DOMAIN x.body
        /\ p._id = x.body.postId
        /\ p.createdBy # The(x.user)._id}

\* C2 as stated: every update or delete by B on a post that A created answers 404
\* and leaves the post store as it was.
C2_Original ==
    (last.op \in {"update", "delete"} /\ last.next = 1 /\ ForeignPost(last) # {}) =>
        last.res.status = 404 /\ posts = last.before.posts

\* C2: every delete, and every update that carries a title, by B on a post that A
\* created answers 404 (not 401, not 403), the very response an id that names no
\* post gets, and leaves the post store as it was.
C2_OwnershipIsolation ==
    (/\ last.op \in {"update", "delete"}
     /\ last.next = 1
     /\ ForeignPost(last) # {}
     /\ (last.op = "update" => ~Falsy(last.body, "title"))) =>
        /\ last.res.status = 404
        /\ last.res = IF last.op = "update"
                      THEN UpdatePost(<<>>, The(last.user), last.body).res
                      ELSE DeletePost(<<>>, The(last.user), last.body).res
        /\ posts = last.before.posts

\* B asked to update A's post and got 404
C2_Witness ==
    /\ last.op = "update"
    /\ last.next = 1
    /\ ForeignPost(last) # {}
    /\ last.res.status = 404
    /\ ForeignPost(last) \subseteq Range(posts)

\* C4: a request without authorization header, with a token whose signature or
\* expiry fails, or with a payload without user never reaches the handler, gets no
\* req.user, has the authToken cookie cleared and is answered 401 "Access Denied",
\* the same in each case; any other request gets the decoded user as req.user and
\* reaches the handler once.
C4_Middleware ==
    last.op \in Guarded =>
        IF \/ "authorization" \notin DOMAIN last.headers
           \/ last.headers.authorization.sig # APPLICATION_SECRET
           \/ last.time >= last.headers.authorization.payload.exp
           \/ "user" \notin DOMAIN last.headers.authorization.payload
        THEN /\ last.next = 0
             /\ last.user = {}
             /\ last.res = [status |-> 401, message |-> <<"Access Denied">>, success |-> FALSE,
                            data |-> <<>>, clearCookie |-> TRUE]
             /\ users = last.before.users /\ posts = last.before.posts
        ELSE /\ last.next = 1
             /\ last.user = {last.headers.authorization.payload.user}

\* a token the server issued, presented after it expired
C4_Witness ==
    /\ last.op \in Guarded
    /\ "authorization" \in DOMAIN last.headers
    /\ last.headers.authorization \in clientToken
    /\ last.time >= last.headers.authorization.payload.exp
    /\ last.res.status = 401

\* C6: login answers 400 when user or password is missing; else 404 when no stored
\* user has the value as email or username; else 401 when the password does not
\* verify against the hash of the matched user; else 200 with that user, without
\* password, and a token that embeds the same. It never changes the stores.
C6_LoginOutcomes ==
    last.op = "login" =>
        LET us == last.before.users
            M  == {i \in DOMAIN us : us[i].email = last.body.user \/ us[i].username = last.body.user}
        IN  /\ users = us
            /\ posts = last.before.posts
            /\ IF Falsy(last.body, "user") \/ Falsy(last.body, "password")
               THEN last.res.status = 400
               ELSE IF M = {}
               THEN last.res.status = 404
               ELSE IF us[Min(M)].password.digest # <<us[Min(M)].password.salt, last.body.password>>
               THEN last.res.status = 401
               ELSE /\ last.res.status = 200
                    /\ last.res.data.user = Delete(us[Min(M)], "password")
                    /\ last.res.data.authToken.payload.user = Delete(us[Min(M)], "password")

\* a known username with a wrong password
C6_Witness ==
    /\ last.op = "login"
    /\ last.res.status = 401
    /\ \E u \in Range(users) : u.username = last.body.user

\* the user objects a response carries, the token payload's included
UserObjects(res) ==
    (IF "user" \in DOMAIN res.data THEN {res.data.user} ELSE {})
    \cup (IF "authToken" \in DOMAIN res.data THEN {res.data.authToken.payload.user} ELSE {})

\* the creators joined into a list response
Creators(res) ==
    IF "posts" \in DOMAIN res.data
    THEN {res.data.posts[i].createdBy : i \in DOMAIN res.data.posts}
    ELSE {}

NoPasswordInResponse ==
    /\ \A o \in UserObjects(last.res) \cup Creators(last.res) : "password" \notin DOMAIN o
    /\ \A tk \in clientToken : "password" \notin DOMAIN tk.payload.user
    /\ "post" \in DOMAIN last.res.data => DOMAIN last.res.data.post = {"_id", "title", "createdBy"}

\* C7 as stated: no response and no token payload holds a password or hash, and a
\* list response holds of each creator only fullName and username.
C7_Original ==
    /\ NoPasswordInResponse
    /\ \A c \in Creators(last.res) : DOMAIN c \subseteq {"fullName", "username"}

\* C7: no response and no token payload holds a password or hash, and a list
\* response holds of each creator only _id, fullName and username.
C7_NoPasswordExposed ==
    /\ NoPasswordInResponse
    /\ \A c \in Creators(last.res) : DOMAIN c = {"_id", "fullName", "username"}

\* a list response with a creator joined, for a post made with an issued token
C7_Witness ==
    /\ last.op = "list"
    /\ Creators(last.res) # {}
    /\ clientToken # {}

\* C8: a token issued at t passes the middleware at every time before
\* t + ExpiresIn and is answered 401 from then on, logouts in between or not; a
\* logout that reaches its handler answers 200, clears the authToken cookie and
\* changes neither store.
C8_TokenLifetime ==
    (/\ last.op = "logout"
     /\ "authorization" \in DOMAIN last.headers
     /\ last.headers.authorization \in clientToken) =>
        /\ last.next = 1 <=> last.time < last.headers.authorization.payload.iat + ExpiresIn
        /\ last.next = 0 => last.res.status = 401
        /\ last.next = 1 => last.res.status = 200 /\ last.res.clearCookie /\ last.res.data = <<>>
        /\ users = last.before.users
        /\ posts = last.before.posts

\* the token passes at the last tick of its life, after a logout was served for it
C8_Witness ==
    /\ last.op = "logout"
    /\ "authorization" \in DOMAIN last.headers
    /\ last.headers.authorization \in clientToken
    /\ last.before.loggedOut
    /\ last.next = 1
    /\ last.time = last.headers.authorization.payload.iat + ExpiresIn - 1

\* C9: a create with a non-empty title by U answers 201 with a post created by U
\* (with an empty or absent title: 400 and no post); no request changes the
\* createdBy of a post that stays in the store; a successful update changes the
\* title of the post it names and nothing else.
C9_CreatedByIsKept ==
    /\ (last.op = "create" /\ last.next = 1) =>
            IF Falsy(last.body, "title")
            THEN last.res.status = 400 /\ posts = last.before.posts
            ELSE /\ last.res.status = 201
                 /\ last.res.data.post.createdBy = The(last.user)._id
                 /\ last.res.data.post.title = last.body.title
                 /\ posts = Append(last.before.posts, last.res.data.post)
    /\ \A p \in Range(last.before.posts), q \in Range(posts) :
            p._id = q._id => q.createdBy = p.createdBy
    /\ (last.op = "update" /\ last.res.status = 200) =>
            /\ Len(posts) = Len(last.before.posts)
            /\ \A i \in DOMAIN posts :
                   posts[i] = IF last.before.posts[i]._id = last.body.postId
                              THEN [last.before.posts[i] EXCEPT !.title = last.body.title]
                              ELSE last.before.posts[i]

\* an update changed one of two stored posts
C9_Witness ==
    /\ last.op = "update"
    /\ last.res.status = 200
    /\ Len(posts) = 2
    /\ posts # last.before.posts
    /\ posts[1].createdBy = posts[2].createdBy

====
